---- MODULE Spec2Model ----
(***************************************************************************)
(* Stock-status inference of restock-backend: the markup heuristic         *)
(* classifier (src/src/stock-checker.ts) and the AI vision classifier with *)
(* its response cache (src/src/ai-vision-service.ts).                      *)
(*                                                                         *)
(* Texts are sequences of cells.  A cell is a one-character string, or     *)
(* PadCell, which stands for PadLen consecutive space characters, so that  *)
(* character offsets (indexOf, the 1500-character window) keep their real  *)
(* values while the sequences stay short.                                  *)
(***************************************************************************)
EXTENDS Integers, Sequences, FiniteSets, TLC

\* ------------------------------------------------------------------ bounds
\* most page fragments in one HTML input
MaxTokens == 3
\* number of space characters one PadCell stands for
PadLen == 2000

\* ------------------------------------------------------- program constants
\* characters taken before and after the first add to cart occurrence
WindowRadius == 1500

\* --------------------------------------------------------------- text cells
PadCell == "~pad~"

Width(c) == IF c = PadCell THEN PadLen ELSE 1

LowerMap ==
  [c \in {"A","B","C","D","E","F","G","H","I","J","K","L","M","N","O","P","Q","R","S","T","U",
          "V","W","X","Y","Z"} |->
     CASE c = "A" -> "a" [] c = "B" -> "b" [] c = "C" -> "c" [] c = "D" -> "d" [] c = "E" -> "e"
       [] c = "F" -> "f" [] c = "G" -> "g" [] c = "H" -> "h" [] c = "I" -> "i" [] c = "J" -> "j"
       [] c = "K" -> "k" [] c = "L" -> "l" [] c = "M" -> "m" [] c = "N" -> "n" [] c = "O" -> "o"
       [] c = "P" -> "p" [] c = "Q" -> "q" [] c = "R" -> "r" [] c = "S" -> "s" [] c = "T" -> "t"
       [] c = "U" -> "u" [] c = "V" -> "v" [] c = "W" -> "w" [] c = "X" -> "x" [] c = "Y" -> "y"
       [] c = "Z" -> "z"]

Lower(c) == IF c \in DOMAIN LowerMap THEN LowerMap[c] ELSE c

\* String.prototype.toLowerCase
toLowerCase(s) == [i \in 1..Len(s) |-> Lower(s[i])]

\* the characters \w of a regular expression (used by \b)
WordChars ==
  {"a","b","c","d","e","f","g","h","i","j","k","l","m","n","o","p","q","r","s","t","u","v","w",
   "x","y","z","0","1","2","3","4","5","6","7","8","9","_"} \cup DOMAIN LowerMap

Digits == {"0","1","2","3","4","5","6","7","8","9"}

\* the characters \s of a regular expression
IsSpace(c) == c \in {" ", PadCell}

\* the least element of a non-empty set of integers
SetMin(S) == CHOOSE x \in S : \A y \in S : x <= y

\* the cells of s that are PadCells
PadsOf(s) == {k \in 1..Len(s) : s[k] = PadCell}

\* String.prototype.length, in characters
length(s) == Len(s) + (PadLen - 1) * Cardinality(PadsOf(s))

\* the pattern p occurs in s at cell i
MatchAt(s, i, p) ==
  /\ i >= 1
  /\ i + Len(p) - 1 <= Len(s)
  /\ \A k \in 1..Len(p) : s[i + k - 1] = p[k]

\* the one element of a singleton set
Only(S) == CHOOSE x \in S : TRUE

\* the least element of a set of positive numbers, 0 if there is none
MinOrZero(S) == IF S = {} THEN 0 ELSE SetMin(S)

\* the greatest element of a set of positive numbers, 0 if there is none
MaxOrZero(S) == IF S = {} THEN 0 ELSE CHOOSE x \in S : \A y \in S : y <= x

\* cell index of the first occurrence of p in s at or after cell i, 0 if none
FirstMatch(s, p, i) == MinOrZero({k \in i..(Len(s) - Len(p) + 1) : MatchAt(s, k, p)})

\* String.prototype.includes
includes(s, p) == FirstMatch(s, p, 1) # 0

\* number of characters before cell i, given the PadCells of s
OffsetIn(pads, i) == (i - 1) + (PadLen - 1) * Cardinality({k \in pads : k < i})

\* number of characters before cell i
OffsetOf(s, i) == OffsetIn(PadsOf(s), i)

\* String.prototype.indexOf: character offset of the first occurrence, -1 if none
indexOf(s, p) ==
  Only({IF i = 0 THEN -1 ELSE OffsetOf(s, i) : i \in {FirstMatch(s, p, 1)}})

\* String.prototype.substring(start, end): the cells that have a character at
\* an offset in [start, end).  A PadCell cut by the window stays a PadCell
\* (white space of some positive width).
substring(s, start, end) ==
  Only({SubSeq(s,
               Cardinality({i \in 1..Len(s) : OffsetIn(pads, i) + Width(s[i]) <= start}) + 1,
               Cardinality({i \in 1..Len(s) : OffsetIn(pads, i) < end}))
        : pads \in {PadsOf(s)}})

Max(a, b) == IF a >= b THEN a ELSE b
Min(a, b) == IF a <= b THEN a ELSE b

\* /p/.test(s) for a literal pattern p between two word boundaries \b
TestWord(s, p) ==
  \E i \in 1..Len(s) :
    /\ MatchAt(s, i, p)
    /\ (i = 1 \/ s[i - 1] \notin WordChars)
    /\ (i + Len(p) > Len(s) \/ s[i + Len(p)] \notin WordChars)

\* a character class: the set of its members, negated or not
InClass(c, cls) == (c \in cls.set) # cls.neg

\* the last cell before k that is not of class cls, 0 if none
LastOutside(s, k, cls) == MaxOrZero({x \in 1..(k - 1) : ~InClass(s[x], cls)})

\* /lit cls*? (p1|p2|...)/.test(s): lit, then cells of class cls, then one of pats
LitClassThen(s, lit, cls, pats) ==
  \E k \in 1..Len(s) :
    /\ \E p \in pats : MatchAt(s, k, p)
    /\ \E i \in Max(1, LastOutside(s, k, cls) + 1 - Len(lit))..(k - Len(lit)) :
         MatchAt(s, i, lit)

\* ------------------------------------------- page fragments (HTML inputs)
\* Add to Cart
TokAddToCart ==
  <<"A","d","d"," ","t","o"," ","C","a","r","t">>

\* Buy now
TokBuyNow ==
  <<"B","u","y"," ","n","o","w">>

\* <button disabled>
TokDisabledBtn ==
  <<"<","b","u","t","t","o","n"," ","d","i","s","a","b","l","e","d",">">>

\* Sold out
TokSoldOut ==
  <<"S","o","l","d"," ","o","u","t">>

\* few left
TokFewLeft ==
  <<"f","e","w"," ","l","e","f","t">>

\* See All Buying Options
TokBuyingOptions ==
  <<"S","e","e"," ","A","l","l"," ","B","u","y","i","n","g"," ","O","p","t","i","o","n","s">>

\* <button data-size=''L'' disabled>
TokSizeL ==
  <<"<","b","u","t","t","o","n"," ","d","a","t","a","-","s","i","z","e","=","\"","L","\""," ",
    "d","i","s","a","b","l","e","d",">">>

\* <button disabled data-size="L">
TokSizeLPre ==
  <<"<","b","u","t","t","o","n"," ","d","i","s","a","b","l","e","d"," ","d","a","t","a","-","s","i","z","e","=","\"","L","\"",">">>

\* <script type=''application/ld+json''>
ScriptOpen ==
  <<"<","s","c","r","i","p","t"," ","t","y","p","e","=","\"","a","p","p","l","i","c","a","t",
    "i","o","n","/","l","d","+","j","s","o","n","\"",">">>

\* </script>
ScriptClose ==
  <<"<","/","s","c","r","i","p","t",">">>

\* {''offers'':{''availability'':''InStock''}}
JsonInStock ==
  <<"{","\"","o","f","f","e","r","s","\"",":","{","\"","a","v","a","i","l","a","b","i","l","i",
    "t","y","\"",":","\"","I","n","S","t","o","c","k","\"","}","}">>

\* {oops
JsonBad ==
  <<"{","o","o","p","s">>

\* InStock
AvailInStock ==
  <<"I","n","S","t","o","c","k">>

TokLdInStock == ScriptOpen \o JsonInStock \o ScriptClose
TokLdBad == ScriptOpen \o JsonBad \o ScriptClose
TokPad == <<PadCell>>

Tokens ==
  {TokAddToCart, TokBuyNow, TokDisabledBtn, TokSoldOut, TokFewLeft, TokBuyingOptions,
   TokSizeL, TokSizeLPre, TokLdInStock, TokLdBad, TokPad}

RECURSIVE Flatten(_)
Flatten(ts) == IF ts = <<>> THEN <<>> ELSE Head(ts) \o Flatten(Tail(ts))

\* the HTML inputs: up to MaxTokens distinct fragments, in any order
TokenSeqs ==
  UNION {{ts \in [1..n -> Tokens] : \A i, j \in 1..n : i # j => ts[i] # ts[j]} : n \in 0..MaxTokens}

Htmls == {Flatten(ts) : ts \in TokenSeqs}

\* --------------------------------------------------- variant descriptors
\* Size: L
VarSizeL ==
  <<"S","i","z","e",":"," ","L">>

\* Size: M, Color: Black
VarSizeMColor ==
  <<"S","i","z","e",":"," ","M",","," ","C","o","l","o","r",":"," ","B","l","a","c","k">>

\* Color: Black
VarColor ==
  <<"C","o","l","o","r",":"," ","B","l","a","c","k">>

\* Size: (
VarSizeParen ==
  <<"S","i","z","e",":"," ","(">>

\* Size: followed by an asterisk
VarSizeStar ==
  <<"S","i","z","e",":"," ","*">>

\* Size: [
VarSizeBracket ==
  <<"S","i","z","e",":"," ","[">>

\* no descriptor (undefined, or the empty string: both are falsy at line 30)
NoVariant == <<>>

Variants ==
  {NoVariant, VarSizeL, VarSizeMColor, VarColor, VarSizeParen, VarSizeStar, VarSizeBracket}

\* ------------------------------------------------ literals of the source
P_add_to_cart ==
  <<"a","d","d"," ","t","o"," ","c","a","r","t">>
P_add_to_bag ==
  <<"a","d","d"," ","t","o"," ","b","a","g">>
P_add_to_basket ==
  <<"a","d","d"," ","t","o"," ","b","a","s","k","e","t">>
P_buy_now ==
  <<"b","u","y"," ","n","o","w">>
P_purchase ==
  <<"p","u","r","c","h","a","s","e">>
P_pre_order ==
  <<"p","r","e","-","o","r","d","e","r">>
P_disabled ==
  <<"d","i","s","a","b","l","e","d">>
P_out_of_stock ==
  <<"o","u","t"," ","o","f"," ","s","t","o","c","k">>
P_sold_out ==
  <<"s","o","l","d"," ","o","u","t">>
P_currently_unavailable ==
  <<"c","u","r","r","e","n","t","l","y"," ","u","n","a","v","a","i","l","a","b","l","e">>
P_not_available ==
  <<"n","o","t"," ","a","v","a","i","l","a","b","l","e">>
P_unavailable ==
  <<"u","n","a","v","a","i","l","a","b","l","e">>
P_low_stock ==
  <<"l","o","w"," ","s","t","o","c","k">>
P_few_left ==
  <<"f","e","w"," ","l","e","f","t">>
P_limited_stock ==
  <<"l","i","m","i","t","e","d"," ","s","t","o","c","k">>
P_only ==
  <<"o","n","l","y"," ">>
P_left ==
  <<" ","l","e","f","t">>
P_script ==
  <<"<","s","c","r","i","p","t">>
P_type ==
  <<"t","y","p","e","=">>
P_ldjson ==
  <<"a","p","p","l","i","c","a","t","i","o","n","/","l","d","+","j","s","o","n">>
P_script_close ==
  <<"<","/","s","c","r","i","p","t",">">>
P_instock ==
  <<"i","n","s","t","o","c","k">>
P_in_stock ==
  <<"i","n","_","s","t","o","c","k">>
P_outofstock ==
  <<"o","u","t","o","f","s","t","o","c","k">>
P_out_of_stock_u ==
  <<"o","u","t","_","o","f","_","s","t","o","c","k">>
P_limitedavailability ==
  <<"l","i","m","i","t","e","d","a","v","a","i","l","a","b","i","l","i","t","y">>
P_data_size ==
  <<"d","a","t","a","-","s","i","z","e","=">>
P_size ==
  <<"s","i","z","e",":">>
P_color ==
  <<"c","o","l","o","r",":">>
P_class_eq ==
  <<"c","l","a","s","s","=","\"">>

\* source text appended to the size at line 54
R3Suffix ==
  <<"[","^","<","]","*","?","(","o","u","t"," ","o","f"," ","s","t","o","c","k","|","s","o","l",
    "d"," ","o","u","t","|","u","n","a","v","a","i","l","a","b","l","e","|","d","i","s","a","b",
    "l","e","d",")">>

\* source text put before the size at line 61
R4Prefix ==
  <<"d","a","t","a","-","s","i","z","e","=","[","\"","'","]">>

\* source text appended to the size at line 61
R4Suffix ==
  <<"[","\"","'","]","[","^",">","]","*","(","d","i","s","a","b","l","e","d","|","c","l","a",
    "s","s","=","\"","[","^","\"","]","*","d","i","s","a","b","l","e","d","[","^","\"","]","*",
    "\"",")">>

P_aria_disabled ==
  <<"a","r","i","a","-","d","i","s","a","b","l","e","d","=","\"","t","r","u","e","\"">>

Quotes == {"\"", "'"}

\* ---------------------------------------------------------------- statuses
StockStatus == {"in_stock", "few_left", "unavailable"}

\* ------------------------------ StockChecker (first definition, lines 4-157)

\* cell index of the first cell equal to c at or after cell i, 0 if none
FirstCell(s, c, i) == FirstMatch(s, <<c>>, i)

\* type=["']application\/ld\+json["'] at cell j
TypeAttrAt(lower, j) ==
  /\ MatchAt(lower, j, P_type)
  /\ j + Len(P_type) + Len(P_ldjson) + 1 <= Len(lower)
  /\ lower[j + Len(P_type)] \in Quotes
  /\ MatchAt(lower, j + Len(P_type) + 1, P_ldjson)
  /\ lower[j + Len(P_type) + 1 + Len(P_ldjson)] \in Quotes

\* the cell of the first > at or after cell j, the last cell if there is none
TagEnd(s, j) == Only({IF gt = 0 THEN Len(s) ELSE gt : gt \in {FirstCell(s, ">", j)}})

\* [^>]* then the type attribute: cell of the attribute, 0 if a > comes first
AttrScan(lower, j) == MinOrZero({x \in j..TagEnd(lower, j) : TypeAttrAt(lower, x)})

\* the regular expression of line 132 tried at cell i: <script, [^>]*, the type
\* attribute, [^>]*>, the shortest content, </script>
ScriptMatchAt(html, lower, i) ==
  Only({
    Only({
      Only({IF m = 0 THEN [found |-> FALSE, group |-> <<>>]
            ELSE [found |-> TRUE, group |-> SubSeq(html, k + 1, m - 1)]
            : m \in {IF k = 0 THEN 0 ELSE FirstMatch(lower, P_script_close, k + 1)}})
      : k \in {IF j = 0 THEN 0
               ELSE FirstCell(lower, ">", j + Len(P_type) + Len(P_ldjson) + 2)}})
    : j \in {AttrScan(lower, i + Len(P_script))}})

\* html.match(/<script[^>]*type=["']application\/ld\+json["'][^>]*>([\s\S]*?)<\/script>/i)
RECURSIVE JsonLdMatch(_, _, _)
JsonLdMatch(html, lower, i) ==
  Only({IF i0 = 0 THEN [found |-> FALSE, group |-> <<>>]
        ELSE Only({IF r.found THEN r ELSE JsonLdMatch(html, lower, i0 + 1)
                   : r \in {ScriptMatchAt(html, lower, i0)}})
        : i0 \in {FirstMatch(lower, P_script, i)}})

\* JSON.parse on the script contents that occur in the inputs: the one JSON
\* document among them parses to an object whose offers.availability is a
\* string; every other content is not JSON and JSON.parse throws SyntaxError
JSONparse(text) ==
  IF text = JsonInStock THEN [ok |-> TRUE, availability |-> AvailInStock]
  ELSE [ok |-> FALSE, availability |-> <<>>]

\* lines 137-149: the status an availability text stands for, or "null"
AvailabilityStatus(availability) ==
  IF availability = <<>> THEN "null"
  ELSE IF includes(availability, P_instock) \/ includes(availability, P_in_stock)
       THEN "in_stock"
  ELSE IF includes(availability, P_outofstock) \/ includes(availability, P_out_of_stock_u)
       THEN "unavailable"
  ELSE IF includes(availability, P_limitedavailability) THEN "few_left"
  ELSE "null"

\* StockChecker.checkStructuredData: a status, or "null"
checkStructuredData(html) ==
  Only({IF ~jsonLdMatch.found THEN "null"
        ELSE Only({IF ~data.ok THEN "null"
                   ELSE AvailabilityStatus(toLowerCase(data.availability))
                   : data \in {JSONparse(jsonLdMatch.group)}})
        : jsonLdMatch \in {JsonLdMatch(html, toLowerCase(html), 1)}})

\* lines 83-87
hasAddToCart(lowerHtml) ==
  \/ includes(lowerHtml, P_add_to_cart)
  \/ includes(lowerHtml, P_add_to_bag)
  \/ includes(lowerHtml, P_add_to_basket)
  \/ includes(lowerHtml, P_buy_now)
  \/ includes(lowerHtml, P_purchase)

\* class=q[^q]*word[^q]*q at cell i, for the quote character q
ClassAttrAt(s, i, word, q) ==
  /\ MatchAt(s, i, SubSeq(P_class_eq, 1, 6) \o <<q>>)
  /\ \E k \in (i + 7)..Len(s) :
       /\ MatchAt(s, k, word)
       /\ \A x \in (i + 7)..(k - 1) : s[x] # q
       /\ \E e \in (k + Len(word))..Len(s) :
            s[e] = q /\ \A x \in (k + Len(word))..(e - 1) : s[x] # q

\* the same, somewhere in s
ClassAttrHas(s, word, q) == \E i \in 1..Len(s) : ClassAttrAt(s, i, word, q)

\* a faulty buttonSection: the whole page instead of the window
buttonSection_wholePage(lowerHtml) == lowerHtml

\* the window of radius characters around offset index (lines 95-97, 221-223,
\* 260-262): Math.max, Math.min, substring
Window(text, lowerHtml, index, radius) ==
  substring(text, Max(0, index - radius), Min(length(lowerHtml), index + radius))

\* lines 94-97: the text around the first add to cart occurrence
buttonSection(lowerHtml) ==
  Window(lowerHtml, lowerHtml, indexOf(lowerHtml, P_add_to_cart), WindowRadius)

\* line 99: /disabled|aria-disabled="true"|class="[^"]*disabled[^"]*"/i.test
DisabledTest(section) ==
  \/ includes(section, P_disabled)
  \/ includes(section, P_aria_disabled)
  \/ ClassAttrHas(section, P_disabled, "\"")

\* lines 92-101
hasDisabledButton(lowerHtml) ==
  IF hasAddToCart(lowerHtml) THEN DisabledTest(buttonSection(lowerHtml)) ELSE FALSE

\* line 104: /\b(out of stock|sold out|currently unavailable|not available|unavailable)\b/i
outOfStockPattern(html) ==
  \E s \in {toLowerCase(html)} :
    \E p \in {P_out_of_stock, P_sold_out, P_currently_unavailable, P_not_available,
              P_unavailable} : TestWord(s, p)

\* only \d+ left between two word boundaries
OnlyNLeft(s) ==
  \E i \in 1..Len(s) :
    /\ MatchAt(s, i, P_only)
    /\ (i = 1 \/ s[i - 1] \notin WordChars)
    /\ \E e \in (i + Len(P_only) + 1)..Len(s) :
         /\ \A x \in (i + Len(P_only))..(e - 1) : s[x] \in Digits
         /\ MatchAt(s, e, P_left)
         /\ (e + Len(P_left) > Len(s) \/ s[e + Len(P_left)] \notin WordChars)

\* line 111: /\b(low stock|few left|limited stock|only \d+ left)\b/i
lowStockPattern(html) ==
  \E s \in {toLowerCase(html)} :
    \/ \E p \in {P_low_stock, P_few_left, P_limited_stock} : TestWord(s, p)
    \/ OnlyNLeft(s)

\* StockChecker.parseStockStatus, lines 72-128
parseStockStatus(html) ==
  Only({
    Only({IF structuredAvailability # "null" THEN structuredAvailability
          ELSE IF outOfStockPattern(html) THEN "unavailable"
          ELSE IF lowStockPattern(html) THEN "few_left"
          ELSE IF hasAddToCart(lowerHtml) /\ ~hasDisabledButton(lowerHtml) THEN "in_stock"
          ELSE IF hasAddToCart(lowerHtml) /\ hasDisabledButton(lowerHtml) THEN "unavailable"
          ELSE "in_stock"
          : structuredAvailability \in {checkStructuredData(html)}})
    : lowerHtml \in {toLowerCase(html)}})

\* first index at or after i of a cell that is not white space (Len + 1 if none)
RECURSIVE SkipSpaces(_, _)
SkipSpaces(s, i) ==
  IF i > Len(s) THEN i ELSE IF IsSpace(s[i]) THEN SkipSpaces(s, i + 1) ELSE i

\* String.prototype.trim
RECURSIVE trimEnd(_)
trimEnd(s) ==
  IF s = <<>> THEN s
  ELSE IF IsSpace(s[Len(s)]) THEN trimEnd(SubSeq(s, 1, Len(s) - 1)) ELSE s

trim(s) == trimEnd(SubSeq(s, SkipSpaces(s, 1), Len(s)))

\* variantString.match(/label\s*([^,]+)/i)?.[1].trim() (lines 46-50): the
\* trimmed value, <<>> when nothing matches (undefined) or the value is blank.
\* \s* gives back a character when a comma or the end follows the white space,
\* so there is a match as soon as a character other than a comma follows label.
\* the value that starts at cell a: up to the next comma or the end, trimmed
ValueFrom(variantString, a) ==
  Only({trim(SubSeq(variantString, a, IF e = 0 THEN Len(variantString) ELSE e - 1))
        : e \in {FirstCell(variantString, ",", a + 1)}})

RECURSIVE FieldValue(_, _, _)
FieldValue(variantString, label, from) ==
  Only({
    Only({IF i = 0 THEN <<>>
          ELSE IF i + Len(label) > Len(lower) \/ lower[i + Len(label)] = ","
               THEN FieldValue(variantString, label, i + 1)
          ELSE ValueFrom(variantString, i + Len(label))
          : i \in {FirstMatch(lower, label, from)}})
    : lower \in {toLowerCase(variantString)}})

\* ---- new RegExp(source): the syntax check of the pattern source ----
\* (ECMAScript pattern grammar without the u flag, over the characters that
\* occur in the sources built at lines 54 and 61: groups, classes,
\* alternation, the quantifiers * + ? and their lazy forms).
\* atom is "atom" after something a quantifier may follow, "quant" right after
\* a quantifier, "none" otherwise.
SyntaxStep(st, c) ==
  IF ~st.ok THEN st
  ELSE IF st.inClass THEN [st EXCEPT !.inClass = (c # "]"), !.atom = "atom"]
  ELSE IF c = "[" THEN [st EXCEPT !.inClass = TRUE, !.atom = "atom"]
  ELSE IF c = "(" THEN [st EXCEPT !.depth = @ + 1, !.atom = "none"]
  ELSE IF c = ")" THEN [st EXCEPT !.ok = (st.depth > 0), !.depth = @ - 1, !.atom = "atom"]
  ELSE IF c \in {"|", "^", "$"} THEN [st EXCEPT !.atom = "none"]
  ELSE IF c \in {"*", "+", "?"}
       THEN IF st.atom = "atom" THEN [st EXCEPT !.atom = "quant"]
            ELSE IF st.atom = "quant" /\ c = "?" THEN [st EXCEPT !.atom = "none"]
            ELSE [st EXCEPT !.ok = FALSE]
  ELSE [st EXCEPT !.atom = "atom"]

\* the scan of src[lo..hi] from state st
RECURSIVE SyntaxScan(_, _, _, _)
SyntaxScan(src, lo, hi, st) ==
  IF ~st.ok \/ lo > hi THEN st
  ELSE IF lo = hi THEN SyntaxStep(st, src[lo])
  ELSE LET mid == (lo + hi) \div 2
           left == SyntaxScan(src, lo, mid, st)
       IN  IF left.ok THEN SyntaxScan(src, mid + 1, hi, left) ELSE left

\* new RegExp(src, 'i') returns (TRUE) or throws SyntaxError (FALSE)
RegExpSyntaxOK(src) ==
  \E st \in {SyntaxScan(src, 1, Len(src),
                        [ok |-> TRUE, depth |-> 0, inClass |-> FALSE, atom |-> "none"])} :
    st.ok /\ st.depth = 0 /\ ~st.inClass

\* the characters with a meaning of their own in a pattern source
RegExpMeta == {"(", ")", "[", "]", "*", "+", "?", "|", "^", "$", ".", "\\", "{", "}"}

\* What the size contributes to a pattern that compiles, for the two shapes the
\* inputs have: literal characters only, or literal characters, then "[" and
\* further characters, which open a character class that the following "]" of
\* the appended source closes.
SizePattern(size) ==
  Only({
    Only({CASE \A x \in 1..Len(lit) : lit[x] \notin RegExpMeta ->
                 [lit |-> toLowerCase(lit), open |-> b # 0,
                  members |-> IF b = 0 THEN {}
                              ELSE {Lower(size[x]) : x \in (b + 1)..Len(size)}]
          : lit \in {IF b = 0 THEN size ELSE SubSeq(size, 1, b - 1)}})
    : b \in {FirstCell(size, "[", 1)}})

\* line 54-55: new RegExp(`${size}[^<]*?(out of stock|sold out|unavailable|disabled)`, 'i')
\* .test(html), for a source that compiles
sizeUnavailablePattern(size, html) ==
  \E pat \in {SizePattern(size)} :
    LitClassThen(toLowerCase(html), pat.lit,
                 IF pat.open THEN [set |-> pat.members \cup {"[", "^", "<"}, neg |-> FALSE]
                 ELSE [set |-> {"<"}, neg |-> TRUE],
                 {P_out_of_stock, P_sold_out, P_unavailable, P_disabled})

\* [^>]*(disabled|class="[^"]*disabled[^"]*") from cell j on
TagTail(s, j) ==
  \E k \in j..TagEnd(s, j) : MatchAt(s, k, P_disabled) \/ ClassAttrAt(s, k, P_disabled, "\"")

\* line 61-62: new RegExp(`data-size=["']${size}["'][^>]*(disabled|class="[^"]*disabled[^"]*")`, 'i')
\* .test(html), for a source that compiles
sizeButtonPattern(size, html) ==
  \E s \in {toLowerCase(html)}, pat \in {SizePattern(size)} :
    \E i \in 1..Len(s) :
      /\ MatchAt(s, i, P_data_size)
      /\ i + Len(P_data_size) <= Len(s)
      /\ s[i + Len(P_data_size)] \in Quotes
      /\ MatchAt(s, i + Len(P_data_size) + 1, pat.lit)
      /\ \E b \in {i + Len(P_data_size) + 1 + Len(pat.lit)} :
           /\ b <= Len(s)
           /\ s[b] \in (IF pat.open THEN pat.members \cup {"[", "\"", "'"} ELSE Quotes)
           /\ TagTail(s, b + 1)

Returned(status) == [kind |-> "returned", status |-> status]
Threw(error) == [kind |-> "threw", status |-> error]

\* StockChecker.parseVariantStock, lines 42-70
parseVariantStock(html, variantString) ==
  Only({IF size = <<>> THEN Returned(parseStockStatus(html))
        ELSE IF ~RegExpSyntaxOK(size \o R3Suffix) THEN Threw("SyntaxError")
        ELSE IF sizeUnavailablePattern(size, html) THEN Returned("unavailable")
        ELSE IF ~RegExpSyntaxOK(R4Prefix \o size \o R4Suffix) THEN Threw("SyntaxError")
        ELSE IF sizeButtonPattern(size, html) THEN Returned("unavailable")
        ELSE Returned(parseStockStatus(html))
        : size \in {FieldValue(variantString, P_size, 1)}})

\* StockChecker.checkStock, lines 30-35, once the page text has been fetched
checkStock(html, variant) ==
  IF variant # <<>> THEN parseVariantStock(html, variant)
  ELSE Returned(parseStockStatus(html))

P_see_all_buying_options ==
  <<"s","e","e"," ","a","l","l"," ","b","u","y","i","n","g"," ","o","p","t","i","o","n","s">>
P_other_sellers_on_amazon ==
  <<"o","t","h","e","r"," ","s","e","l","l","e","r","s"," ","o","n"," ","a","m","a","z","o","n">>
P_no_longer_available ==
  <<"n","o"," ","l","o","n","g","e","r"," ","a","v","a","i","l","a","b","l","e">>
P_temporarily_out_of_stock ==
  <<"t","e","m","p","o","r","a","r","i","l","y"," ","o","u","t"," ","o","f"," ","s","t","o","c",
    "k">>
P_item_is_no_longer_available ==
  <<"i","t","e","m"," ","i","s"," ","n","o"," ","l","o","n","g","e","r"," ","a","v","a","i","l",
    "a","b","l","e">>
P_this_item_is_unavailable ==
  <<"t","h","i","s"," ","i","t","e","m"," ","i","s"," ","u","n","a","v","a","i","l","a","b","l",
    "e">>
P_almost_gone ==
  <<"a","l","m","o","s","t"," ","g","o","n","e">>
P_inactive ==
  <<"i","n","a","c","t","i","v","e">>
P_button_disabled ==
  <<"b","u","t","t","o","n","-","-","d","i","s","a","b","l","e","d">>
P_z_button_disabled ==
  <<"z","-","b","u","t","t","o","n","-","-","d","i","s","a","b","l","e","d">>
P_is_disabled ==
  <<"i","s","-","d","i","s","a","b","l","e","d">>
P_eq_true ==
  <<"=","\"","t","r","u","e","\"">>
P_eq_empty ==
  <<"=","\"","\"">>

\* --------------------- StockChecker (second definition, lines 162-342)

\* characters taken before and after the first add to cart occurrence for the
\* out-of-stock phrases (lines 260-261)
ProductAreaRadius == 2000

\* lines 207-212
hasAddToCart2(lowerHtml) ==
  \/ includes(lowerHtml, P_add_to_cart)
  \/ includes(lowerHtml, P_add_to_bag)
  \/ includes(lowerHtml, P_add_to_basket)
  \/ includes(lowerHtml, P_buy_now)
  \/ includes(lowerHtml, P_purchase)
  \/ includes(lowerHtml, P_pre_order)

\* line 226: /disabled="true"|disabled>|disabled\s|disabled=""|disabled$/m.test
hasDisabledAttr(section) ==
  \E i \in 1..Len(section) :
    /\ MatchAt(section, i, P_disabled)
    /\ \E e \in {i + Len(P_disabled)} :
         \/ MatchAt(section, e, P_eq_true)
         \/ MatchAt(section, e, P_eq_empty)
         \/ e > Len(section)
         \/ e <= Len(section) /\ (section[e] = ">" \/ IsSpace(section[e]) \/ section[e] = "\n")

\* lines 226-232
DisabledTest2(section) ==
  \/ hasDisabledAttr(section)
  \/ includes(section, P_aria_disabled)
  \/ \E q \in {"\"", "'"}, word \in {P_disabled, P_inactive} : ClassAttrHas(section, word, q)
  \/ \E p \in {P_button_disabled, P_z_button_disabled, P_is_disabled} : includes(section, p)

\* lines 217-241
hasDisabledButton2(lowerHtml) ==
  \E addToCartIndex \in {indexOf(lowerHtml, P_add_to_cart)} :
    /\ addToCartIndex # -1
    /\ DisabledTest2(Window(lowerHtml, lowerHtml, addToCartIndex, WindowRadius))

\* lines 246-255, tested on text
outOfStockPatterns(text) ==
  \E s \in {toLowerCase(text)} :
    \E p \in {P_out_of_stock, P_sold_out, P_currently_unavailable, P_no_longer_available,
              P_temporarily_out_of_stock, P_not_available, P_item_is_no_longer_available,
              P_this_item_is_unavailable} : TestWord(s, p)

\* lines 258-278: the phrases near the first add to cart occurrence, or in the
\* whole page when there is no purchase affordance
outOfStockFound(html, lowerHtml) ==
  IF hasAddToCart2(lowerHtml)
  THEN outOfStockPatterns(Window(html, lowerHtml, indexOf(lowerHtml, P_add_to_cart),
                                 ProductAreaRadius))
  ELSE outOfStockPatterns(html)

\* /only \d+ left/i (no word boundaries)
OnlyNLeftAnywhere(s) ==
  \E i \in 1..Len(s) :
    /\ MatchAt(s, i, P_only)
    /\ \E e \in (i + Len(P_only) + 1)..Len(s) :
         /\ \A x \in (i + Len(P_only))..(e - 1) : s[x] \in Digits
         /\ MatchAt(s, e, P_left)

\* lines 281-293
lowStockPatterns(html) ==
  \E s \in {toLowerCase(html)} :
    \/ OnlyNLeftAnywhere(s)
    \/ \E p \in {P_low_stock, P_few_left, P_limited_stock, P_almost_gone} : TestWord(s, p)

\* StockChecker.parseStockStatus of the second definition, lines 197-313
parseStockStatus2(html) ==
  Only({
    Only({IF includes(lowerHtml, P_see_all_buying_options)
             \/ includes(lowerHtml, P_other_sellers_on_amazon) THEN "in_stock"
          ELSE IF outOfStockFound(html, lowerHtml) THEN "unavailable"
          ELSE IF lowStockPatterns(html) THEN "few_left"
          ELSE IF structuredAvailability # "null" THEN structuredAvailability
          ELSE IF hasAddToCart2(lowerHtml) /\ ~hasDisabledButton2(lowerHtml) THEN "in_stock"
          ELSE IF hasAddToCart2(lowerHtml) /\ hasDisabledButton2(lowerHtml) THEN "unavailable"
          ELSE "in_stock"
          : structuredAvailability \in {checkStructuredData(html)}})
    : lowerHtml \in {toLowerCase(html)}})

\* StockChecker.checkStock of the second definition, lines 187-190
checkStock2(html) == Returned(parseStockStatus2(html))

\* ------------------------------------- AIVisionService (ai-vision-service.ts)

\* line 25: CACHE_TTL, in milliseconds
CACHE_TTL == 5 * 60 * 1000

\* line 305: characters of the screenshot that make the fingerprint
HashLen == 100

\* line 335: the cache is swept when it holds more entries than this
SweepSize == 100

\* s repeated n times
Rep(c, n) == [i \in 1..n |-> c]

P_jpeg ==
  <<"/","9","j","/">>
P_png ==
  <<"i","V","B","O","R","w","0","K","G","g","o">>
P_gif ==
  <<"R","0","l","G","O","D","l","h">>
P_webp ==
  <<"U","k","l","G","R">>
P_variants ==
  <<"v","a","r","i","a","n","t","s">>
P_stock_ ==
  <<"s","t","o","c","k","-">>

\* screenshots (base64 text): two JPEG images that share their first HashLen
\* characters, and a short image of no recognized format
ImgA == P_jpeg \o Rep("A", HashLen - Len(P_jpeg)) \o <<"x">>
ImgB == P_jpeg \o Rep("A", HashLen - Len(P_jpeg)) \o <<"y">>
ImgC == <<"Q", "k", "0">>

Screenshots == {ImgA, ImgC}

\* variant labels of the AI path
Labels == {<<"M">>, <<"L">>}

\* String.prototype.startsWith
startsWith(s, p) == MatchAt(s, 1, p)

\* AIVisionService.detectImageFormat, lines 39-49
detectImageFormat(base64) ==
  IF startsWith(base64, P_jpeg) THEN "image/jpeg"
  ELSE IF startsWith(base64, P_png) THEN "image/png"
  ELSE IF startsWith(base64, P_gif) THEN "image/gif"
  ELSE IF startsWith(base64, P_webp) THEN "image/webp"
  ELSE "image/jpeg"

\* AIVisionService.getCacheKey, lines 302-307
getCacheKey(prefix, screenshot) ==
  LET hash == substring(screenshot, 0, HashLen) IN prefix \o <<"-">> \o hash

\* ---- the model's answers ----
\* The text of an answer is a sequence of pieces: prose without braces, an
\* opening brace, a closing brace, or one "key": value member of a JSON
\* object (the commas between members are left out).
Prose == [k |-> "prose", v |-> ""]
LBrace == [k |-> "{", v |-> ""]
RBrace == [k |-> "}", v |-> ""]
Member(key, value) == [k |-> key, v |-> value]

MemberKeys == {"status", "confidence", "reasoning", "variants"}

\* the values of a variants member: two arrays and a value that is no array
VariantsEmpty == "[]"
VariantsTwo == "[size S available, size L unavailable]"
VariantsNotArray == "none"

\* the pieces answer texts are built from
AnswerPieces ==
  { Prose, LBrace, RBrace,
    Member("status", "in_stock"), Member("status", "maybe"),
    Member("confidence", "high"), Member("confidence", "certain"),
    Member("variants", VariantsTwo), Member("variants", VariantsNotArray) }

\* most pieces of an answer text
MaxPieces == 4

AnswerTexts == UNION {[1..n -> AnswerPieces] : n \in 0..MaxPieces}

\* an Anthropic.Message: its content array, of which only content[0] is read
Message(text) == [blocks |-> 1, type |-> "text", text |-> text]
ToolUseMessage == [blocks |-> 1, type |-> "tool_use", text |-> <<>>]
EmptyMessage == [blocks |-> 0, type |-> "none", text |-> <<>>]

Responses == {Message(t) : t \in AnswerTexts} \cup {ToolUseMessage, EmptyMessage}

\* the screenshots, labels and answers of the runs that follow the cache
\* over several operations
CacheShots == {ImgA}
CacheLabels == {<<"M">>}

CacheResponses ==
  { Message(<<LBrace, Member("status", "in_stock"), Member("confidence", "high"), RBrace>>),
    Message(<<Prose>>) }

\* text.match(/\{[\s\S]*\}/): from the first opening brace to the last closing
\* brace after it; <<>> when there is none (null)
jsonMatch(text) ==
  LET opens == {i \in 1..Len(text) : text[i] = LBrace}
      first == IF opens = {} THEN 0 ELSE SetMin(opens)
      closes == {i \in 1..Len(text) : i > first /\ text[i] = RBrace}
  IN  IF first = 0 \/ closes = {} THEN <<>>
      ELSE SubSeq(text, first, CHOOSE i \in closes : \A j \in closes : j <= i)

\* JSON.parse of a matched text: an object when the pieces between the outer
\* braces are all members, SyntaxError otherwise
JSONparseObject(m) ==
  LET inner == SubSeq(m, 2, Len(m) - 1) IN
  IF \A i \in 1..Len(inner) : inner[i].k \in MemberKeys
  THEN [ok |-> TRUE, members |-> inner]
  ELSE [ok |-> FALSE, members |-> <<>>]

\* parsed[key]: the value of the last member with that key, "undefined" if none
Field(parsed, key) ==
  LET at == {i \in 1..Len(parsed.members) : parsed.members[i].k = key} IN
  IF at = {} THEN "undefined"
  ELSE parsed.members[CHOOSE i \in at : \A j \in at : j <= i].v

\* a || b on strings
OrElse(a, b) == IF a = "undefined" \/ a = "" THEN b ELSE a

\* the text of the answer, or the error thrown on the way to it (lines 263-273)
ExtractJson(response) ==
  IF response.blocks = 0 THEN [ok |-> FALSE, error |-> "TypeError", parsed |-> <<>>]
  ELSE IF response.type # "text"
       THEN [ok |-> FALSE, error |-> "Unexpected response type from Claude", parsed |-> <<>>]
  ELSE LET m == jsonMatch(response.text) IN
       IF m = <<>>
       THEN [ok |-> FALSE, error |-> "No JSON found in Claude response", parsed |-> <<>>]
       ELSE LET parsed == JSONparseObject(m) IN
            IF ~parsed.ok THEN [ok |-> FALSE, error |-> "SyntaxError", parsed |-> <<>>]
            ELSE [ok |-> TRUE, error |-> "", parsed |-> parsed]

FailedToParse(error) == <<"Failed to parse AI response: ", error>>

\* a faulty parseStockResponse: the status is passed through unvalidated
parseStockResponse_unvalidated(response) ==
  LET x == ExtractJson(response) IN
  IF ~x.ok
  THEN [status |-> "unavailable", confidence |-> "low", reasoning |-> FailedToParse(x.error)]
  ELSE [status |-> Field(x.parsed, "status"),
        confidence |-> OrElse(Field(x.parsed, "confidence"), "medium"),
        reasoning |-> <<OrElse(Field(x.parsed, "reasoning"), "No reasoning provided")>>]

\* AIVisionService.parseStockResponse, lines 261-297
parseStockResponse(response) ==
  LET x == ExtractJson(response) IN
  IF ~x.ok
  THEN [status |-> "unavailable", confidence |-> "low", reasoning |-> FailedToParse(x.error)]
  ELSE IF Field(x.parsed, "status") \notin {"in_stock", "few_left", "unavailable"}
       THEN [status |-> "unavailable", confidence |-> "low",
             reasoning |-> FailedToParse("Invalid status: " \o Field(x.parsed, "status"))]
  ELSE [status |-> Field(x.parsed, "status"),
        confidence |-> OrElse(Field(x.parsed, "confidence"), "medium"),
        reasoning |-> <<OrElse(Field(x.parsed, "reasoning"), "No reasoning provided")>>]

\* Array.isArray of a variants value
IsArray(v) == v \in {VariantsEmpty, VariantsTwo}

\* a faulty parseVariantResponse: the variants are passed through unvalidated
parseVariantResponse_unvalidated(response) ==
  LET x == ExtractJson(response) IN
  IF ~x.ok
  THEN [variants |-> VariantsEmpty, confidence |-> "low", reasoning |-> FailedToParse(x.error)]
  ELSE [variants |-> Field(x.parsed, "variants"),
        confidence |-> OrElse(Field(x.parsed, "confidence"), "medium"),
        reasoning |-> <<Field(x.parsed, "reasoning")>>]

\* AIVisionService.parseVariantResponse, lines 221-256
parseVariantResponse(response) ==
  LET x == ExtractJson(response) IN
  IF ~x.ok
  THEN [variants |-> VariantsEmpty, confidence |-> "low", reasoning |-> FailedToParse(x.error)]
  ELSE IF ~IsArray(Field(x.parsed, "variants"))
       THEN [variants |-> VariantsEmpty, confidence |-> "low",
             reasoning |-> FailedToParse("Invalid response: variants must be an array")]
  ELSE [variants |-> Field(x.parsed, "variants"),
        confidence |-> OrElse(Field(x.parsed, "confidence"), "medium"),
        reasoning |-> <<Field(x.parsed, "reasoning")>>]

\* a Map: get, set, delete
MapSet(m, k, e) == [x \in DOMAIN m \cup {k} |-> IF x = k THEN e ELSE m[x]]
MapDelete(m, ks) == [x \in DOMAIN m \ ks |-> m[x]]

\* no value: null, undefined
Null == [null |-> TRUE]

\* a faulty getFromCache: an entry whose age equals the TTL counts as expired
getFromCache_expiresEarly(c, clock, key) ==
  IF key \notin DOMAIN c THEN [value |-> Null, cache |-> c]
  ELSE IF clock - c[key].timestamp >= CACHE_TTL
       THEN [value |-> Null, cache |-> MapDelete(c, {key})]
  ELSE [value |-> c[key].result, cache |-> c]

\* AIVisionService.getFromCache, lines 312-323: the value returned and the
\* cache it leaves behind
getFromCache(c, clock, key) ==
  IF key \notin DOMAIN c THEN [value |-> Null, cache |-> c]
  ELSE IF clock - c[key].timestamp > CACHE_TTL
       THEN [value |-> Null, cache |-> MapDelete(c, {key})]
  ELSE [value |-> c[key].result, cache |-> c]

\* a faulty setCache: over the threshold it evicts every other entry
setCache_evicts(c, clock, key, result) ==
  LET stored == MapSet(c, key, [result |-> result, timestamp |-> clock]) IN
  IF Cardinality(DOMAIN stored) > SweepSize
  THEN MapDelete(stored, DOMAIN stored \ {key})
  ELSE stored

\* AIVisionService.setCache, lines 328-343
setCache(c, clock, key, result) ==
  LET stored == MapSet(c, key, [result |-> result, timestamp |-> clock]) IN
  IF Cardinality(DOMAIN stored) > SweepSize
  THEN MapDelete(stored, {k \in DOMAIN stored : clock - stored[k].timestamp > CACHE_TTL})
  ELSE stored

\* a faulty catch block: the failure is mapped to a guessed result
modelFailure_guessed(op, message) ==
  [kind |-> "returned",
   value |-> IF op = "detectVariants"
             THEN [variants |-> VariantsEmpty, confidence |-> "low",
                   reasoning |-> FailedToParse(message)]
             ELSE [status |-> "unavailable", confidence |-> "low",
                   reasoning |-> FailedToParse(message)]]

\* the error a failed model call ends the operation with (lines 130-133, 212-215)
modelFailure(op, message) ==
  [kind |-> "threw",
   value |-> IF op = "detectVariants"
             THEN [error |-> <<"AI Vision variant detection failed: ", message>>]
             ELSE [error |-> <<"AI Vision stock check failed: ", message>>]]

\* the parser of each operation (lines 125, 207)
parseResponse(op, response) ==
  IF op = "detectVariants" THEN parseVariantResponse(response)
  ELSE parseStockResponse(response)

\* a faulty key of checkVariantStock: the label is left out
cacheKeyOf_noLabel(op, screenshot, label) ==
  IF op = "detectVariants" THEN getCacheKey(P_variants, screenshot)
  ELSE getCacheKey(P_stock_, screenshot)

\* the cache key of each operation (lines 56, 141)
cacheKeyOf(op, screenshot, label) ==
  IF op = "detectVariants" THEN getCacheKey(P_variants, screenshot)
  ELSE getCacheKey(P_stock_ \o label, screenshot)

\* ------------------------------------------------------------------ bounds
\* most AI operations started
MaxCalls == 3
\* most advances of the clock
MaxTicks == 2

\* the amounts the clock advances by between two steps, in milliseconds
TickSteps == {1, CACHE_TTL}

\* messages of a failed model call
FailureMessages == {"529 overloaded"}

\* ------------------------------------------------------------ state machine
VARIABLES
  html,        \* the page text of the stock check
  variant,     \* its variant descriptor (NoVariant: none)
  defn,        \* which definition of StockChecker served it
  result,      \* its outcome, Pending before it ran
  cache,       \* AIVisionService.cache: key -> [result, timestamp]
  now,         \* Date.now()
  ticks,       \* advances of the clock so far
  pending,     \* the AI operations suspended on messages.create
  started,     \* AI operations started so far
  modelCalls,  \* invocations of the model so far
  last,        \* the AI operation that ended last: how, what the model did, and
               \* how many operations had started by then (seen)
  origin,      \* per cache key: the operation, image and label of the call that
               \* stored under it last
  batchRequest,  \* the body of a POST /api/check-stock-batch request
  checked,       \* per position of urls: how checker.checkStock ended, Pending before
  order,         \* the positions in the order their checks ended
  batchResponse  \* the response sent, NoResponse before

vars == <<html, variant, defn, result, cache, now, ticks, pending, started, modelCalls, last,
          origin, batchRequest, checked, order, batchResponse>>
markupVars == <<html, variant, defn, result>>
aiVars == <<cache, now, ticks, pending, started, modelCalls, last, origin>>
batchVars == <<batchRequest, checked, order, batchResponse>>

Pending == [kind |-> "pending", status |-> "none"]
NoCall == [id |-> 0, op |-> "none", key |-> <<>>, model |-> "none", response |-> Null,
           kind |-> "none", value |-> Null, seen |-> 0]
EmptyCache == [k \in {} |-> "none"]

InitMarkup ==
  /\ variant = NoVariant
  /\ defn = "none"
  /\ result = Pending

NoRequest == [isArray |-> FALSE, urls |-> <<>>]
NoResponse == [status |-> 0, success |-> FALSE, results |-> <<>>]

InitBatch ==
  /\ batchRequest = NoRequest
  /\ checked = <<>>
  /\ order = <<>>
  /\ batchResponse = NoResponse

InitAI ==
  /\ cache = EmptyCache
  /\ now = 0
  /\ ticks = 0
  /\ pending = {}
  /\ started = 0
  /\ modelCalls = 0
  /\ last = NoCall
  /\ origin = EmptyCache

\* ---- the stock checks on page text ----
Init == html \in Htmls /\ InitMarkup /\ InitAI /\ InitBatch

\* a stock check with variant descriptor v, served by the first definition
CheckStock(v) ==
  /\ result = Pending
  /\ variant' = v
  /\ defn' = "first"
  /\ result' = checkStock(html, v)
  /\ UNCHANGED <<html, aiVars, batchVars>>

\* a stock check served by the second definition (it takes no descriptor)
CheckStock2 ==
  /\ result = Pending
  /\ defn' = "second"
  /\ result' = checkStock2(html)
  /\ UNCHANGED <<html, variant, aiVars, batchVars>>

Next ==
  \/ \E v \in Variants : CheckStock(v)
  \/ CheckStock2

Spec == Init /\ [][Next]_vars

\* ---- the AI operations ----
\* a faulty operation with single-flight: a miss while a call of the same key
\* is suspended starts no model call of its own
Start_singleFlight(op, screenshot, label) ==
  /\ started < MaxCalls
  /\ started' = started + 1
  /\ LET cacheKey == cacheKeyOf(op, screenshot, label)
         cached == getFromCache(cache, now, cacheKey)
     IN  /\ cache' = cached.cache
         /\ IF cached.value # Null
            THEN /\ last' = [id |-> started + 1, op |-> op, key |-> cacheKey, model |-> "none",
                             response |-> Null, kind |-> "returned", value |-> cached.value,
                             seen |-> started + 1]
                 /\ UNCHANGED <<pending, modelCalls>>
            ELSE IF \E c \in pending : c.key = cacheKey
                 THEN UNCHANGED <<pending, modelCalls, last>>
            ELSE /\ pending' = pending \cup
                       {[id |-> started + 1, op |-> op, key |-> cacheKey,
                         mediaType |-> detectImageFormat(screenshot),
                         screenshot |-> screenshot, label |-> label]}
                 /\ modelCalls' = modelCalls + 1
                 /\ UNCHANGED last
  /\ UNCHANGED <<markupVars, batchVars, now, ticks, origin>>

\* detectVariants / checkVariantStock up to the model call (lines 54-123,
\* 139-205): a cache hit returns, a miss sends the request and suspends
Start(op, screenshot, label) ==
  /\ started < MaxCalls
  /\ started' = started + 1
  /\ LET cacheKey == cacheKeyOf(op, screenshot, label)
         cached == getFromCache(cache, now, cacheKey)
     IN  /\ cache' = cached.cache
         /\ IF cached.value # Null
            THEN /\ last' = [id |-> started + 1, op |-> op, key |-> cacheKey, model |-> "none",
                             response |-> Null, kind |-> "returned", value |-> cached.value,
                             seen |-> started + 1]
                 /\ UNCHANGED <<pending, modelCalls>>
            ELSE /\ pending' = pending \cup
                       {[id |-> started + 1, op |-> op, key |-> cacheKey,
                         mediaType |-> detectImageFormat(screenshot),
                         screenshot |-> screenshot, label |-> label]}
                 /\ modelCalls' = modelCalls + 1
                 /\ UNCHANGED last
  /\ UNCHANGED <<markupVars, batchVars, now, ticks, origin>>

detectVariants(screenshot) == Start("detectVariants", screenshot, <<>>)

checkVariantStock(screenshot, label) == Start("checkVariantStock", screenshot, label)

\* a faulty completion: a result of confidence low is returned but not stored
ModelAnswers_skipsDegraded(call, response) ==
  /\ call \in pending
  /\ pending' = pending \ {call}
  /\ LET parsed == parseResponse(call.op, response) IN
       /\ cache' = IF parsed.confidence = "low" THEN cache
                   ELSE setCache(cache, now, call.key, parsed)
       /\ last' = [id |-> call.id, op |-> call.op, key |-> call.key, model |-> "answered",
                   response |-> response, kind |-> "returned", value |-> parsed,
                   seen |-> started]
  /\ origin' = MapSet(origin, call.key,
                      [op |-> call.op, screenshot |-> call.screenshot, label |-> call.label])
  /\ UNCHANGED <<markupVars, batchVars, now, ticks, started, modelCalls>>

\* messages.create resolves with a response: parse, store, return (lines
\* 125-129, 207-211)
ModelAnswers(call, response) ==
  /\ call \in pending
  /\ pending' = pending \ {call}
  /\ LET parsed == parseResponse(call.op, response) IN
       /\ cache' = setCache(cache, now, call.key, parsed)
       /\ last' = [id |-> call.id, op |-> call.op, key |-> call.key, model |-> "answered",
                   response |-> response, kind |-> "returned", value |-> parsed,
                   seen |-> started]
  /\ origin' = MapSet(origin, call.key,
                      [op |-> call.op, screenshot |-> call.screenshot, label |-> call.label])
  /\ UNCHANGED <<markupVars, batchVars, now, ticks, started, modelCalls>>

\* messages.create rejects: the catch block rethrows (lines 130-133, 212-215)
ModelFails(call, message) ==
  /\ call \in pending
  /\ pending' = pending \ {call}
  /\ LET failure == modelFailure(call.op, message) IN
       last' = [id |-> call.id, op |-> call.op, key |-> call.key, model |-> "failed",
                response |-> [error |-> message], kind |-> failure.kind, value |-> failure.value,
                seen |-> started]
  /\ UNCHANGED <<markupVars, batchVars, cache, now, ticks, started, modelCalls, origin>>

\* time passes
Tick(d) ==
  /\ ticks < MaxTicks
  /\ ticks' = ticks + 1
  /\ now' = now + d
  /\ UNCHANGED <<markupVars, batchVars, cache, pending, started, modelCalls, last, origin>>

InitAIOnly == html = <<>> /\ InitMarkup /\ InitAI /\ InitBatch

NextAI ==
  \/ \E s \in CacheShots : detectVariants(s)
  \/ \E s \in CacheShots, l \in CacheLabels : checkVariantStock(s, l)
  \/ \E c \in pending, r \in CacheResponses : ModelAnswers(c, r)
  \/ \E c \in pending, m \in FailureMessages : ModelFails(c, m)
  \/ \E d \in TickSteps : Tick(d)

SpecAI == InitAIOnly /\ [][NextAI]_vars

\* ---- one AI operation on a fresh service, over every answer ----
NextAnswer ==
  \/ \E s \in Screenshots : started = 0 /\ detectVariants(s)
  \/ \E s \in Screenshots, l \in Labels : started = 0 /\ checkVariantStock(s, l)
  \/ \E c \in pending, r \in Responses : ModelAnswers(c, r)
  \/ \E c \in pending, m \in FailureMessages : ModelFails(c, m)

SpecAnswer == InitAIOnly /\ [][NextAnswer]_vars

\* ------------------------------------------------------------- properties
\* ---- stock checks on page text (Spec) ----
WholeProduct == result # Pending /\ variant = NoVariant

\* C1: for every page text and every variant descriptor the stock check
\* returns exactly one of in_stock, few_left, unavailable and never throws.
C1_ReturnsStatus ==
  result # Pending => (result.kind = "returned" /\ result.status \in StockStatus)

\* C6: a whole-product check of a page with a parseable structured-data block
\* saying InStock and a "sold out" phrase in its text results in in_stock.
C6_StructuredDataWins ==
  (/\ WholeProduct
   /\ checkStructuredData(html) = "in_stock"
   /\ TestWord(toLowerCase(html), P_sold_out))
  => result = Returned("in_stock")

\* C7: a whole-product check of a page without a structured-data verdict that
\* has "See All Buying Options" and an add to cart phrase with a disabled
\* indicator inside its window results in in_stock.
C7_MarketplaceOverride ==
  (/\ WholeProduct
   /\ checkStructuredData(html) = "null"
   /\ includes(toLowerCase(html), P_see_all_buying_options)
   /\ includes(toLowerCase(html), P_add_to_cart)
   /\ DisabledTest(buttonSection(toLowerCase(html))))
  => result = Returned("in_stock")

\* C8: the check with a variant descriptor is unavailable or equal to the check
\* without one, and equal to it when the descriptor has no Size sub-value.
C8_VariantOnlyNarrows ==
  (result # Pending /\ defn = "first")
  => /\ result = Returned("unavailable") \/ result = checkStock(html, NoVariant)
     /\ FieldValue(variant, P_size, 1) = <<>> => result = checkStock(html, NoVariant)

\* C9: when the size selector of size L in the page carries a disabled
\* indicator, the check with descriptor "Size: L" returns unavailable.
C9_DisabledSizeUnavailable ==
  (/\ defn = "first"
   /\ variant = VarSizeL
   /\ includes(html, TokSizeL) \/ includes(html, TokSizeLPre))
  => result = Returned("unavailable")

\* the character offsets at which a disabled indicator starts
IndicatorOffsets(lowerHtml) ==
  {OffsetOf(lowerHtml, i) : i \in {k \in 1..Len(lowerHtml) :
      MatchAt(lowerHtml, k, P_disabled) \/ MatchAt(lowerHtml, k, P_inactive)}}

\* every disabled indicator is more than 1500 characters away from the first
\* add to cart occurrence
IndicatorsFar(lowerHtml) ==
  \E at \in {indexOf(lowerHtml, P_add_to_cart)} :
    \A o \in IndicatorOffsets(lowerHtml) : o - at > 1500 \/ at - (o + Len(P_disabled)) > 1500

FarDisabledCase ==
  /\ WholeProduct
  /\ includes(toLowerCase(html), P_add_to_cart)
  /\ checkStructuredData(html) = "null"
  /\ ~outOfStockPattern(html) /\ ~outOfStockPatterns(html)
  /\ ~lowStockPattern(html) /\ ~lowStockPatterns(html)
  /\ IndicatorsFar(toLowerCase(html))

\* C10: a whole-product check of a page with an add to cart phrase, no
\* structured-data verdict, no unavailability phrase, no low-stock phrase and
\* every disabled indicator more than 1500 characters away from the first add
\* to cart occurrence results in in_stock.
C10_FarDisabledIgnored == FarDisabledCase => result = Returned("in_stock")

\* a page with add to cart and a far disabled button was checked by the first
\* definition and found in stock
C10_Witness ==
  /\ FarDisabledCase
  /\ defn = "first"
  /\ includes(toLowerCase(html), P_disabled)
  /\ result = Returned("in_stock")

\* ---- the cache over several operations (SpecAI) ----
\* the entry of key is live: present and of an age within the TTL
Live(key) == key \in DOMAIN cache /\ now - cache[key].timestamp <= CACHE_TTL

\* C2: a checkVariantStock call that finds the result of an earlier call with
\* the same image and label stored at most CACHE_TTL ago returns that result
\* without invoking the model; once the TTL has expired (or with nothing
\* stored) it invokes the model again.
C2_CacheWithinTTL ==
  [][\A s \in Screenshots, l \in Labels :
       checkVariantStock(s, l) =>
         LET key == getCacheKey(P_stock_ \o l, s) IN
         IF Live(key)
         THEN /\ modelCalls' = modelCalls
              /\ pending' = pending
              /\ last'.id = started'
              /\ last'.kind = "returned"
              /\ last'.value = cache[key].result
         ELSE /\ modelCalls' = modelCalls + 1
              /\ \E c \in pending' \ pending : c.id = started' /\ c.key = key]_vars

\* a stock check was served from the cache, and a later stock check of the
\* same key, started after the entry expired, is waiting for the model
C2_Witness ==
  /\ last.op = "checkVariantStock"
  /\ last.model = "none"
  /\ last.kind = "returned"
  /\ last.key \notin DOMAIN cache
  /\ now > CACHE_TTL
  /\ \E c \in pending : c.key = last.key /\ c.id > last.seen

\* C5: when the model call fails the operation ends with an error and stores
\* nothing, and the next call with the same key invokes the model again.
C5_ModelFailureSurfaces ==
  [][/\ \A c \in pending, m \in FailureMessages :
          ModelFails(c, m) => /\ last'.id = c.id
                              /\ last'.kind = "threw"
                              /\ cache' = cache
     /\ \A op \in {"detectVariants", "checkVariantStock"}, s \in Screenshots, l \in Labels :
          (/\ Start(op, s, l)
           /\ last.model = "failed"
           /\ last.key = cacheKeyOf(op, s, l)
           /\ last.key \notin DOMAIN cache)
          => /\ modelCalls' = modelCalls + 1
             /\ \E c \in pending' \ pending : c.key = last.key]_vars

\* a model call failed, nothing is stored under its key, and a call with the
\* same key that started afterwards is waiting for the model
C5_Witness ==
  /\ last.model = "failed"
  /\ last.kind = "threw"
  /\ last.key \notin DOMAIN cache
  /\ \E c \in pending : c.key = last.key /\ c.id > last.seen

\* ---- one operation over every answer (SpecAnswer) ----
NoTextBlock(r) == r.blocks = 0 \/ r.type # "text"
NoJsonObject(r) == jsonMatch(r.text) = <<>>
UnparseableJson(r) == ~JSONparseObject(jsonMatch(r.text)).ok
ParsedField(r, key) == Field(JSONparseObject(jsonMatch(r.text)), key)

\* no text block, no JSON object, JSON that does not parse, or a status that is
\* none of the three
MalformedStockAnswer(r) ==
  \/ NoTextBlock(r)
  \/ NoJsonObject(r)
  \/ UnparseableJson(r)
  \/ ParsedField(r, "status") \notin StockStatus

\* no text block, no JSON object, JSON that does not parse, or variants that
\* are no array
MalformedVariantAnswer(r) ==
  \/ NoTextBlock(r)
  \/ NoJsonObject(r)
  \/ UnparseableJson(r)
  \/ ParsedField(r, "variants") \notin {VariantsEmpty, VariantsTwo}

\* C3: when the model answers a stock check with a malformed answer, the check
\* returns (does not throw) status unavailable with confidence low.
C3_MalformedStockDegrades ==
  (/\ last.op = "checkVariantStock"
   /\ last.model = "answered"
   /\ MalformedStockAnswer(last.response))
  => /\ last.kind = "returned"
     /\ last.value.status = "unavailable"
     /\ last.value.confidence = "low"

\* a stock check ended on an answer whose JSON parses but whose status is not
\* one of the three
C3_Witness ==
  /\ last.op = "checkVariantStock"
  /\ last.model = "answered"
  /\ ~NoTextBlock(last.response)
  /\ ~NoJsonObject(last.response)
  /\ ~UnparseableJson(last.response)
  /\ ParsedField(last.response, "status") = "maybe"
  /\ last.value.status = "unavailable"

\* C4: when the model answers a variant detection with a malformed answer, the
\* detection returns (does not throw) no variants, confidence low, and the
\* parse error in reasoning.
C4_MalformedVariantsDegrade ==
  (/\ last.op = "detectVariants"
   /\ last.model = "answered"
   /\ MalformedVariantAnswer(last.response))
  => /\ last.kind = "returned"
     /\ last.value.variants = VariantsEmpty
     /\ last.value.confidence = "low"
     /\ Len(last.value.reasoning) = 2
     /\ last.value.reasoning[1] = "Failed to parse AI response: "

\* a variant detection ended on an answer whose JSON parses but whose variants
\* are no array
C4_Witness ==
  /\ last.op = "detectVariants"
  /\ last.model = "answered"
  /\ ~NoTextBlock(last.response)
  /\ ~NoJsonObject(last.response)
  /\ ~UnparseableJson(last.response)
  /\ ParsedField(last.response, "variants") = VariantsNotArray
  /\ last.value.variants = VariantsEmpty

\* ---- the resolution step (Spec) ----
\* the purchase-affordance phrases
AffordancePhrases ==
  {P_add_to_cart, P_add_to_bag, P_add_to_basket, P_buy_now, P_purchase, P_pre_order}

\* the character offsets at which an affordance phrase starts
AffordanceOffsets(lowerHtml) ==
  {indexOf(lowerHtml, p) : p \in {q \in AffordancePhrases : includes(lowerHtml, q)}}

\* a disabled signal lies within 1500 characters of the first affordance phrase
DisabledNearAffordance(lowerHtml) ==
  \E first \in {SetMin(AffordanceOffsets(lowerHtml))} :
    \/ DisabledTest(Window(lowerHtml, lowerHtml, first, 1500))
    \/ DisabledTest2(Window(lowerHtml, lowerHtml, first, 1500))

\* no structured-data verdict, marketplace phrase, unavailability phrase or
\* low-stock phrase in the page
ResolutionCase ==
  /\ WholeProduct
  /\ checkStructuredData(html) = "null"
  /\ ~includes(toLowerCase(html), P_see_all_buying_options)
  /\ ~includes(toLowerCase(html), P_other_sellers_on_amazon)
  /\ ~outOfStockPattern(html) /\ ~outOfStockPatterns(html)
  /\ ~lowStockPattern(html) /\ ~lowStockPatterns(html)

\* C11: when nothing else decided, the result is unavailable if an affordance
\* phrase was found and a disabled signal lies in the window around its first
\* occurrence, and in_stock otherwise.
C11_ResolutionByAffordance ==
  ResolutionCase =>
    \E lowerHtml \in {toLowerCase(html)} :
      IF AffordanceOffsets(lowerHtml) # {} /\ DisabledNearAffordance(lowerHtml)
      THEN result = Returned("unavailable")
      ELSE result = Returned("in_stock")

\* ------------------------------------------- POST /api/check-stock-batch
\* the longest urls array of a request
MaxUrls == 3

Urls == {"https://shop.example/a", "https://shop.example/b"}

\* the request bodies: urls is an array of up to MaxUrls addresses (an address
\* may repeat), or it is missing or not an array
BatchRequests ==
  {[isArray |-> TRUE, urls |-> us] : us \in UNION {[1..n -> Urls] : n \in 0..MaxUrls}}
    \cup {NoRequest}

\* the pages a fetch may bring back, and the failures it may end with
BatchPages == {TokAddToCart, TokSoldOut}
FetchFailures == {"HTTP 503"}

\* the callback of urls.map: the element of results for one address
itemResult(url, outcome) ==
  IF outcome.kind = "returned"
  THEN [url |-> url, success |-> TRUE, status |-> outcome.status, error |-> "none"]
  ELSE [url |-> url, success |-> FALSE, status |-> "none", error |-> outcome.status]

\* results in the order the checks ended
promiseAll_completionOrder(urls, outcomes, ended) ==
  [k \in 1..Len(ended) |-> itemResult(urls[ended[k]], outcomes[ended[k]])]

\* Promise.all over urls.map: the value of the i-th promise at position i
promiseAll(urls, outcomes, ended) ==
  [i \in 1..Len(urls) |-> itemResult(urls[i], outcomes[i])]

InitBatchRequest ==
  /\ batchRequest \in BatchRequests
  /\ checked = [i \in 1..Len(batchRequest.urls) |-> Pending]
  /\ order = <<>>
  /\ batchResponse = NoResponse

\* urls is missing or not an array: 400
BatchBadRequest ==
  /\ batchResponse = NoResponse
  /\ ~batchRequest.isArray
  /\ batchResponse' = [status |-> 400, success |-> FALSE, results |-> <<>>]
  /\ UNCHANGED <<markupVars, aiVars, batchRequest, checked, order>>

\* checker.checkStock(urls[i]) resolves: the page came back and was classified
CheckEnds(i, page, served) ==
  /\ batchRequest.isArray
  /\ i \in DOMAIN checked
  /\ checked[i] = Pending
  /\ checked' = [checked EXCEPT ![i] = IF served = "first" THEN checkStock(page, NoVariant)
                                       ELSE checkStock2(page)]
  /\ order' = Append(order, i)
  /\ UNCHANGED <<markupVars, aiVars, batchRequest, batchResponse>>

\* checker.checkStock(urls[i]) rejects: the fetch failed
CheckFails(i, message) ==
  /\ batchRequest.isArray
  /\ i \in DOMAIN checked
  /\ checked[i] = Pending
  /\ checked' = [checked EXCEPT ![i] = Threw(message)]
  /\ order' = Append(order, i)
  /\ UNCHANGED <<markupVars, aiVars, batchRequest, batchResponse>>

\* every promise of urls.map has settled: res.json
BatchRespond ==
  /\ batchResponse = NoResponse
  /\ batchRequest.isArray
  /\ \A i \in DOMAIN checked : checked[i] # Pending
  /\ batchResponse' = [status |-> 200, success |-> TRUE,
                       results |-> promiseAll(batchRequest.urls, checked, order)]
  /\ UNCHANGED <<markupVars, aiVars, batchRequest, checked, order>>

InitBatchOnly == html = <<>> /\ InitMarkup /\ InitAI /\ InitBatchRequest

NextBatch ==
  \/ BatchBadRequest
  \/ \E i \in 1..MaxUrls, page \in BatchPages, served \in {"first", "second"} : CheckEnds(i, page, served)
  \/ \E i \in 1..MaxUrls, m \in FetchFailures : CheckFails(i, m)
  \/ BatchRespond

SpecBatch == InitBatchOnly /\ [][NextBatch]_vars

\* C12: the response of a batch request whose urls is an array is a success
\* carrying a results list as long as urls, in the order of urls whatever the
\* order the checks ended in: results[i] names urls[i] and holds how the check
\* of urls[i] ended, a status for a check that returned, an error for a check
\* that failed.
C12_BatchResultsInOrder ==
  (batchRequest.isArray /\ batchResponse # NoResponse) =>
    /\ batchResponse.status = 200
    /\ batchResponse.success
    /\ Len(batchResponse.results) = Len(batchRequest.urls)
    /\ \A i \in 1..Len(batchRequest.urls) :
         /\ batchResponse.results[i].url = batchRequest.urls[i]
         /\ batchResponse.results[i].success = (checked[i].kind = "returned")
         /\ checked[i].kind = "returned" => batchResponse.results[i].status = checked[i].status
         /\ checked[i].kind = "threw" => batchResponse.results[i].error = checked[i].status

\* a full batch answered although one check failed, another returned, and the
\* checks ended out of order
C12_Witness ==
  /\ batchResponse.status = 200
  /\ Len(batchRequest.urls) = MaxUrls
  /\ batchRequest.urls[1] # batchRequest.urls[2]
  /\ order[1] > order[2]
  /\ \E i, j \in DOMAIN checked : checked[i].kind = "threw" /\ checked[j].kind = "returned"

\* ---- the cache keys of the AI operations ----
\* both operations on every image and label, no failure and no passing of time
NextKeys ==
  \/ \E s \in Screenshots : detectVariants(s)
  \/ \E s \in Screenshots, l \in Labels : checkVariantStock(s, l)
  \/ \E c \in pending, r \in CacheResponses : ModelAnswers(c, r)

SpecKeys == InitAIOnly /\ [][NextKeys]_vars

Operations == {"detectVariants", "checkVariantStock"}
LabelsOf(op) == IF op = "detectVariants" THEN {<<>>} ELSE Labels

\* the keys of two stock checks of one image differ when their labels differ,
\* and no key of detectVariants is a key of checkVariantStock
KeysDistinct ==
  /\ \A s \in Screenshots, l1, l2 \in Labels :
       l1 # l2 => cacheKeyOf("checkVariantStock", s, l1) # cacheKeyOf("checkVariantStock", s, l2)
  /\ \A s1, s2 \in Screenshots, l \in Labels :
       cacheKeyOf("detectVariants", s1, <<>>) # cacheKeyOf("checkVariantStock", s2, l)

\* C13: stock checks of one image with different labels use different keys
\* and a detectVariants key is never a checkVariantStock key; so an operation
\* served from the cache gets a result that the same operation stored, and for
\* a stock check one stored for the same label.
C13_NoCrossKeyHit ==
  [][/\ KeysDistinct
     /\ \A op \in Operations, s \in Screenshots : \A l \in LabelsOf(op) :
          (started' = started + 1 /\ modelCalls' = modelCalls /\ Start(op, s, l)) =>
            \E key \in {cacheKeyOf(op, s, l)} :
              /\ key \in DOMAIN origin
              /\ origin[key].op = op
              /\ origin[key].label = l
              /\ last'.value = cache[key].result]_vars

\* a stock check was served from the cache while a result for another label
\* of the same image was cached too
C13_Witness ==
  /\ last.op = "checkVariantStock"
  /\ last.model = "none"
  /\ last.kind = "returned"
  /\ \E k \in DOMAIN cache :
       /\ origin[k].op = "checkVariantStock"
       /\ origin[k].screenshot = origin[last.key].screenshot
       /\ origin[k].label # origin[last.key].label

\* ---- the confidence of a result ----
Confidences == {"high", "medium", "low"}

\* C14: every result returned by detectVariants or checkVariantStock has a
\* confidence that is one of high, medium, low, whatever the confidence field
\* of the model's answer holds.
C14_ConfidenceValidated ==
  last.kind = "returned" => last.value.confidence \in Confidences

\* ---- the unavailability phrases and the affordance window ----
\* the text within ProductAreaRadius of the first occurrence of an affordance
\* phrase
AffordanceWindow(lowerHtml) ==
  Window(html, lowerHtml, SetMin(AffordanceOffsets(lowerHtml)), ProductAreaRadius)

\* a whole-product check of a page without structured-data verdict and without
\* marketplace phrase
PhraseCase ==
  /\ WholeProduct
  /\ checkStructuredData(html) = "null"
  /\ ~includes(toLowerCase(html), P_see_all_buying_options)
  /\ ~includes(toLowerCase(html), P_other_sellers_on_amazon)
  /\ outOfStockPatterns(html)

\* C15: on a page with a purchase affordance an unavailability phrase inside
\* the window around the affordance gives unavailable, and one that occurs only
\* outside the window does not (with no disabled signal the page is not
\* unavailable); on a page without affordance the phrase gives unavailable
\* wherever it is.
C15_PhraseScopedToWindow ==
  PhraseCase =>
    \E lowerHtml \in {toLowerCase(html)} :
      IF AffordanceOffsets(lowerHtml) = {} THEN result = Returned("unavailable")
      ELSE IF outOfStockPatterns(AffordanceWindow(lowerHtml)) THEN result = Returned("unavailable")
      ELSE (~DisabledTest(lowerHtml) /\ ~DisabledTest2(lowerHtml)) => result # Returned("unavailable")

\* ---- the sweep of setCache ----
\* most entries of the full cache that have expired at the start
MaxOld == 1

\* the key of the variant detection of the i-th other image
FillerKey(i) == getCacheKey(P_variants, <<"Q", ToString(i)>>)

FillerResult == [variants |-> VariantsEmpty, confidence |-> "high", reasoning |-> <<"undefined">>]

\* a service that has cached the variant detections of n other images, the
\* first old of them at time 0 and the others at time 1
FullCache(n, old) ==
  [k \in {FillerKey(i) : i \in 1..n} |->
     [result |-> FillerResult,
      timestamp |-> IF k \in {FillerKey(i) : i \in 1..old} THEN 0 ELSE 1]]

InitSweep ==
  /\ html = <<>>
  /\ InitMarkup
  /\ InitBatch
  /\ \E n \in {SweepSize - 1, SweepSize}, old \in 0..MaxOld : cache = FullCache(n, old)
  /\ now = CACHE_TTL + 1
  /\ ticks = 0
  /\ pending = {}
  /\ started = 0
  /\ modelCalls = 0
  /\ last = NoCall
  /\ origin = EmptyCache

\* most stock checks and most advances of the clock on the full cache
MaxSweepCalls == 2
MaxSweepTicks == 1

NextSweep ==
  \/ \E s \in CacheShots, l \in Labels : started < MaxSweepCalls /\ checkVariantStock(s, l)
  \/ \E c \in pending, r \in CacheResponses : ModelAnswers(c, r)
  \/ \E d \in TickSteps : ticks < MaxSweepTicks /\ Tick(d)

SpecSweep == InitSweep /\ [][NextSweep]_vars

LiveKeys == {k \in DOMAIN cache : Live(k)}

\* C16: no step removes an entry whose age is within the TTL; a put stores the
\* entry of its key and, when the count after the insert exceeds SweepSize,
\* removes exactly the expired entries, otherwise nothing.
C16_SweepOnlyExpired ==
  [][/\ LiveKeys \subseteq DOMAIN cache'
     /\ \A c \in pending, r \in {x \in CacheResponses : last'.model = "answered" /\ x = last'.response} :
          (c.id = last'.id /\ ModelAnswers(c, r)) =>
            /\ c.key \in DOMAIN cache'
            /\ cache'[c.key] = [result |-> parseResponse(c.op, r), timestamp |-> now]
            /\ \A k \in LiveKeys \ {c.key} : cache'[k] = cache[k]
            /\ IF Cardinality(DOMAIN cache \cup {c.key}) > SweepSize
               THEN DOMAIN cache' = LiveKeys \cup {c.key}
               ELSE DOMAIN cache' = DOMAIN cache \cup {c.key}]_vars

\* after a sweep that removed the expired entries a further put left more than
\* SweepSize entries, all of them live
C16_Witness ==
  /\ FillerKey(1) \notin DOMAIN cache
  /\ Cardinality(DOMAIN cache) > SweepSize
  /\ LiveKeys = DOMAIN cache
  /\ last.model = "answered"

\* ---- the AI operations when every model call is answered ----
NextAnswered ==
  \/ \E s \in CacheShots : detectVariants(s)
  \/ \E s \in CacheShots, l \in CacheLabels : checkVariantStock(s, l)
  \/ \E c \in pending, r \in CacheResponses : ModelAnswers(c, r)
  \/ \E d \in TickSteps : Tick(d)

SpecAnswered == InitAIOnly /\ [][NextAnswered]_vars

\* ---- degraded results and the cache ----
MalformedAnswer(op, r) ==
  IF op = "detectVariants" THEN MalformedVariantAnswer(r) ELSE MalformedStockAnswer(r)

\* the result of a parse that failed
Degraded(value) ==
  /\ value.confidence = "low"
  /\ Len(value.reasoning) = 2
  /\ value.reasoning[1] = "Failed to parse AI response: "

\* C17: the degraded result of a malformed answer is stored under the key of
\* the operation when it returns, and a following call of that key that finds
\* it within the TTL returns it without invoking the model.
C17_DegradedIsCached ==
  [][/\ \A c \in pending, r \in {x \in CacheResponses : last'.model = "answered" /\ x = last'.response} :
          (c.id = last'.id /\ ModelAnswers(c, r) /\ MalformedAnswer(c.op, r)) =>
            /\ Degraded(last'.value)
            /\ c.key \in DOMAIN cache'
            /\ cache'[c.key] = [result |-> last'.value, timestamp |-> now]
     /\ \A op \in Operations, s \in CacheShots : \A l \in LabelsOf(op) :
          (started' = started + 1 /\ Start(op, s, l)) =>
            \E key \in {cacheKeyOf(op, s, l)} :
              (Live(key) /\ Degraded(cache[key].result)) =>
                /\ modelCalls' = modelCalls
                /\ pending' = pending
                /\ last'.kind = "returned"
                /\ last'.value = cache[key].result]_vars

\* a call was served a degraded result from the cache
C17_Witness ==
  /\ last.model = "none"
  /\ last.kind = "returned"
  /\ Degraded(last.value)
  /\ modelCalls = 1
  /\ started = 2

\* ---- concurrent calls of one key ----
\* C18: an operation that starts while a call of the same key is suspended,
\* and finds no live entry, performs its own model call; every call that the
\* model answers returns the result parsed from its own answer, and the cache
\* holds the result of the call that completed last.
C18_NoSingleFlight ==
  [][/\ \A op \in Operations, s \in CacheShots : \A l \in LabelsOf(op) :
          (started' = started + 1 /\ Start(op, s, l)) =>
            \E key \in {cacheKeyOf(op, s, l)} :
              (~Live(key) /\ \E c \in pending : c.key = key) =>
                /\ modelCalls' = modelCalls + 1
                /\ \E c \in pending' \ pending : c.id = started' /\ c.key = key
     /\ \A c \in pending, r \in {x \in CacheResponses : last'.model = "answered" /\ x = last'.response} :
          (c.id = last'.id /\ ModelAnswers(c, r)) =>
            /\ pending' = pending \ {c}
            /\ last'.kind = "returned"
            /\ last'.value = parseResponse(c.op, r)
            /\ cache'[c.key].result = parseResponse(c.op, r)]_vars

\* the second of two calls of one key was answered while the first is still
\* suspended: the model was invoked twice and the cache holds the second's
\* result
C18_Witness ==
  /\ last.id = 2
  /\ last.model = "answered"
  /\ modelCalls = 2
  /\ \E c \in pending : c.id = 1 /\ c.key = last.key
  /\ cache[last.key].result = last.value

\* ---- the JSON object of an answer ----
\* the pieces of the first object of a text: from the first opening brace to
\* the first closing brace after it, <<>> when there is none
FirstObject(text) ==
  Only({IF opens = {} THEN <<>>
        ELSE Only({IF closes = {} THEN <<>> ELSE SubSeq(text, SetMin(opens), SetMin(closes))
                   : closes \in {{i \in 1..Len(text) : i > SetMin(opens) /\ text[i] = RBrace}}})
        : opens \in {{i \in 1..Len(text) : text[i] = LBrace}}})

\* an answer text of prose, one well-formed object with a valid status, and
\* any trailing text
StartsWithValidObject(text) ==
  /\ FirstObject(text) # <<>>
  /\ JSONparseObject(FirstObject(text)).ok
  /\ Field(JSONparseObject(FirstObject(text)), "status") \in StockStatus

\* C19: a stock check answered by prose, one well-formed JSON object with a
\* valid status and any trailing text returns the status and confidence of
\* that first object, not the degraded result.
C19_FirstObjectParsed ==
  (/\ last.op = "checkVariantStock"
   /\ last.model = "answered"
   /\ ~NoTextBlock(last.response)
   /\ StartsWithValidObject(last.response.text))
  => /\ last.kind = "returned"
     /\ ~Degraded(last.value)
     /\ last.value.status = Field(JSONparseObject(FirstObject(last.response.text)), "status")
     /\ last.value.confidence =
          OrElse(Field(JSONparseObject(FirstObject(last.response.text)), "confidence"), "medium")

====
